---- MODULE Spec2Model ----
(***************************************************************************)
(* A model of the tlog crate (src/src/lib.rs): the DateTime wrapper with   *)
(* its Display implementation, and the tlog! macro as it runs once it is   *)
(* expanded into the body of a calling function.                           *)
(*                                                                         *)
(* Text is modelled character by character: a string is a sequence of      *)
(* one-character strings, so that padding, newlines and byte-wise writes   *)
(* are visible.                                                            *)
(***************************************************************************)
EXTENDS Integers, Sequences, FiniteSets, TLC

(***************************************************************************)
(* Bounds of the model.                                                    *)
(***************************************************************************)
\* The number of tlog! invocations a caller may start when it runs alone.
MaxCalls == 2

\* The number of tlog! invocations each of two concurrent callers may start.
ConcCalls == 1

(***************************************************************************)
(* Characters and integer formatting (core::fmt as used by lib.rs).        *)
(***************************************************************************)
NL == "\n"

DigitChars == <<"0", "1", "2", "3", "4", "5", "6", "7", "8", "9">>

IsDigit(c) == \E i \in 1..10 : DigitChars[i] = c

DigitValue(c) == (CHOOSE i \in 1..10 : DigitChars[i] = c) - 1

RECURSIVE Dec(_)
\* The decimal digits of a natural number, as "{}" prints them.
Dec(n) == IF n < 10 THEN <<DigitChars[n + 1]>>
          ELSE Dec(n \div 10) \o <<DigitChars[(n % 10) + 1]>>

RECURSIVE Zeros(_)
Zeros(k) == IF k <= 0 THEN <<>> ELSE <<"0">> \o Zeros(k - 1)

\* "{}" applied to a signed integer.
FmtInt(n) == IF n < 0 THEN <<"-">> \o Dec(-n) ELSE Dec(n)

\* A width that is ignored.
FmtIntNoPad(n, w) == FmtInt(n)

\* "{:0w}" applied to a signed integer: sign-aware zero padding up to width
\* w; a value wider than w is printed in full.
FmtIntPad(n, w) ==
    IF n < 0 THEN <<"-">> \o Zeros(w - 1 - Len(Dec(-n))) \o Dec(-n)
    ELSE Zeros(w - Len(Dec(n))) \o Dec(n)

RECURSIVE ParseDec(_)
\* The number a sequence of digits denotes (used to read output back).
ParseDec(s) == IF s = <<>> THEN 0
               ELSE 10 * ParseDec(SubSeq(s, 1, Len(s) - 1)) + DigitValue(s[Len(s)])

AllDigits(s) == \A i \in 1..Len(s) : IsDigit(s[i])

(***************************************************************************)
(* DateTime: a wrapper of time::OffsetDateTime.                            *)
(***************************************************************************)
\* Wall-clock readings the system clock can give (all are valid dates).
DocExample == [year |-> 2022, month |-> 9, day |-> 5, hour |-> 11, minute |-> 10,
               second |-> 31, nanosecond |-> 763000000]

WallClock ==
    [year : {1970, 2022, 9999}, month : {1, 12}, day : {1, 28}, hour : {0, 23},
     minute : {0, 59}, second : {0, 59},
     nanosecond : {0, 7999999, 763000000, 999999999}] \cup {DocExample}

\* UTC offsets (seconds) of the local time zone.
LocalOffsets == {3600, -18000}

AtOffset(w, off) ==
    [year |-> w.year, month |-> w.month, day |-> w.day, hour |-> w.hour,
     minute |-> w.minute, second |-> w.second, nanosecond |-> w.nanosecond,
     offset |-> off]

\* OffsetDateTime::now_local(): Ok(local date-time) or Err(IndeterminateOffset).
IndeterminateOffset == [ok |-> FALSE]

NowLocalResults(clock) ==
    {[ok |-> TRUE, odt |-> AtOffset(w, off)] : w \in clock, off \in LocalOffsets}
        \cup {IndeterminateOffset}

\* OffsetDateTime::now_utc().
NowUtcResults(clock) == {AtOffset(w, 0) : w \in clock}

\* DateTime::now(): local time, or UTC when the local offset is unknown.
DateTimeNow(local, utc) == [odt |-> IF local.ok THEN local.odt ELSE utc]

\* The values DateTime::now() can return over the readings `clock`.
DateTimeNowValues(clock) ==
    {DateTimeNow(l, AtOffset(DocExample, 0)) : l \in NowLocalResults(clock) \ {IndeterminateOffset}}
        \cup {DateTimeNow(IndeterminateOffset, u) : u \in NowUtcResults(clock)}

\* OffsetDateTime::millisecond().
Millisecond(odt) == odt.nanosecond \div 1000000

\* A Display that prints month() as a zero-based index and unpadded fields.
DisplayUnpadded(d) ==
    FmtIntPad(d.odt.year, 4) \o <<"-">> \o FmtIntPad(d.odt.month - 1, 2) \o <<"-">>
        \o FmtIntNoPad(d.odt.day, 2) \o <<" ">> \o FmtIntPad(d.odt.hour, 2) \o <<":">>
        \o FmtIntPad(d.odt.minute, 2) \o <<":">> \o FmtIntPad(d.odt.second, 2) \o <<".">>
        \o FmtIntNoPad(Millisecond(d.odt), 3)

\* impl fmt::Display for DateTime.
Display(d) ==
    FmtIntPad(d.odt.year, 4) \o <<"-">> \o FmtIntPad(d.odt.month, 2) \o <<"-">>
        \o FmtIntPad(d.odt.day, 2) \o <<" ">> \o FmtIntPad(d.odt.hour, 2) \o <<":">>
        \o FmtIntPad(d.odt.minute, 2) \o <<":">> \o FmtIntPad(d.odt.second, 2) \o <<".">>
        \o FmtIntPad(Millisecond(d.odt), 3)

(***************************************************************************)
(* The process environment, the file system and standard output.           *)
(***************************************************************************)
DefaultLogFile == "/tmp/t.log"

\* Values of the environment variable TMP_LOG_FILE.  On Unix a value is a
\* byte string; `unicode` says whether it is valid UTF-8.
Unset == [set |-> FALSE, val |-> "", unicode |-> TRUE]

EnvSet(v) == [set |-> TRUE, val |-> v, unicode |-> TRUE]

EnvSetNotUnicode(v) == [set |-> TRUE, val |-> v, unicode |-> FALSE]

EnvValues == {Unset, EnvSet(""), EnvSet(" "), EnvSetNotUnicode("/tmp/<FF>.log")}

\* Every file a call can be asked to write.
Paths == {DefaultLogFile} \cup {e.val : e \in {x \in EnvValues : x.set /\ x.val # ""}}

\* std::env::var(key): Err(NotPresent) when the variable is not set,
\* Err(NotUnicode) when its value is not valid Unicode, Ok(value) otherwise.
EnvVar(e) == IF ~e.set THEN [ok |-> FALSE, val |-> "", err |-> "NotPresent"]
             ELSE IF ~e.unicode THEN [ok |-> FALSE, val |-> "", err |-> "NotUnicode"]
             ELSE [ok |-> TRUE, val |-> e.val, err |-> ""]

\* tlog!: the resolution of log_file.
ResolveLogFile(e) ==
    LET r == EnvVar(e)
    IN  IF r.ok THEN (IF r.val = "" THEN DefaultLogFile ELSE r.val)
        ELSE DefaultLogFile

\* Errors of open() and of write().
OpenErrors == {"Permission denied (os error 13)"}

WriteErrors == {"No space left on device (os error 28)"}

(***************************************************************************)
(* Messages and the log line.                                              *)
(***************************************************************************)
\* Message expressions given to the one-argument arm.
Msgs == {<<>>, <<"a">>, <<"a", NL>>, <<"a", NL, NL>>}

\* Format strings with their arguments, given to the formatting arm.  A
\* format string is a sequence of literal characters and "{}" placeholders.
FmtCalls == {[fmt |-> <<"{}">>, args |-> <<<<"a">>>>],
             [fmt |-> <<"{}", "{}">>, args |-> <<<<"a">>, <<NL>>>>],
             [fmt |-> <<"{}", NL, "{}">>, args |-> <<<<"a">>, <<NL>>>>]}

RECURSIVE Format(_, _)
\* format!(fmt, args...): each "{}" is replaced by the next argument.
Format(f, args) ==
    IF f = <<>> THEN <<>>
    ELSE IF Head(f) = "{}" THEN Head(args) \o Format(Tail(f), Tail(args))
    ELSE <<Head(f)>> \o Format(Tail(f), args)

EndsWith(s, c) == Len(s) > 0 /\ s[Len(s)] = c

\* A line that gets a newline whatever it ends with.
AlwaysNewline(s) == s \o <<NL>>

\* tlog!: `if msg.ends_with('\n') { msg } else { format!("{}\n", msg) }`.
EnsureNewline(s) == IF EndsWith(s, NL) THEN s ELSE s \o <<NL>>

\* A prefix without the process id block.
PrefixNoPid(now, id, m) == <<"[">> \o Display(now) \o <<"]", " ">> \o m

\* tlog!: `format!("[{}][{}] {}", now, pid, msg)`.
Prefixed(now, id, m) ==
    <<"[">> \o Display(now) \o <<"]", "[">> \o FmtInt(id) \o <<"]", " ">> \o m

\* tlog!: the bytes handed to write_all.
LogLine(now, id, m) == EnsureNewline(Prefixed(now, id, m))

(***************************************************************************)
(* Files opened for appending, and write_all.                              *)
(***************************************************************************)
\* A write at the handle's own position (a file not opened for appending).
PositionedWrite(content, pos, bytes) ==
    SubSeq(content, 1, pos) \o bytes
        \o SubSeq(content, pos + Len(bytes) + 1, Len(content))

\* write() on a handle opened with append(true): the bytes go to the end of
\* the file as it is at the time of the write, whatever the handle's position.
AppendWrite(content, pos, bytes) == content \o bytes

\* An open that truncates the file.
OpenTruncate(content) == <<>>

\* OpenOptions::new().append(true).create(true).open(): the content of the
\* file once it is open (an absent file is created empty).
OpenAppendCreate(content) == content

\* The last n bytes of the buffer.
AcceptedTail(b, n) == SubSeq(b, Len(b) - n + 1, Len(b))

\* write(buf) = Ok(n): the n bytes the file accepted.
Accepted(b, n) == SubSeq(b, 1, n)

\* A rest that skips one byte beyond those accepted.
RestSkipsByte(b, n) == SubSeq(b, n + 2, Len(b))

\* write_all: `buf = &buf[n..]`.
Rest(b, n) == SubSeq(b, n + 1, Len(b))

(***************************************************************************)
(* State.                                                                  *)
(*                                                                         *)
(* tlog! is a macro_rules macro whose body is a list of statements, not a  *)
(* block: it is expanded into the body of the calling function.  A caller  *)
(* is a function whose body is a sequence of `tlog!(...);` statements,     *)
(* each followed by a statement of the caller's own.                       *)
(***************************************************************************)
VARIABLES
    env,       \* the value of TMP_LOG_FILE in the process environment
    files,     \* the content of every file
    exists,    \* the files that exist
    stdout,    \* the diagnostics printed to standard output
    pid,       \* libc::getpid() of every caller
    pc,        \* where every caller is
    handles,   \* the files every caller's function body holds open (cfile)
    call,      \* the locals of the caller's current or last tlog! expansion
    calls,     \* the tlog! invocations every caller has started
    ran,       \* the statements following a tlog! every caller has executed
    log,       \* history: the records write_all has written completely
    dt,        \* a DateTime value (the formatter on its own)
    shown      \* its Display output

vars == <<env, files, exists, stdout, pid, pc, handles, call, calls, ran, log, dt, shown>>

Callers == {1, 2}

Epoch == [odt |-> AtOffset([year |-> 1970, month |-> 1, day |-> 1, hour |-> 0,
                              minute |-> 0, second |-> 0, nanosecond |-> 0], 0)]

\* The locals of an expansion before it has run.
NoCall == [msg |-> <<>>, env |-> Unset, log_file |-> DefaultLogFile, before |-> <<>>,
           now |-> Epoch, line |-> <<>>, buf |-> <<>>, off |-> 0, nwrites |-> 0,
           result |-> "none"]

\* The state before anything has run; `pids` are the process ids the callers
\* may have (two threads share one, two processes do not).
InitWith(pids) ==
    /\ env \in EnvValues
    /\ files = [f \in Paths |-> <<>>]
    /\ exists = {}
    /\ stdout = <<>>
    /\ pid \in pids
    /\ pc = [p \in Callers |-> "out"]
    /\ handles = [p \in Callers |-> <<>>]
    /\ call = [p \in Callers |-> NoCall]
    /\ calls = [p \in Callers |-> 0]
    /\ ran = [p \in Callers |-> 0]
    /\ log = <<>>
    /\ dt = Epoch
    /\ shown = <<>>

fmtVars == <<dt, shown>>

(***************************************************************************)
(* The calling function.                                                   *)
(***************************************************************************)
\* The caller's function is entered.
CallerEnter(p) ==
    /\ pc[p] = "out"
    /\ pc' = [pc EXCEPT ![p] = "body"]
    /\ call' = [call EXCEPT ![p] = NoCall]
    /\ UNCHANGED <<env, files, exists, stdout, pid, handles, calls, ran, log, fmtVars>>

\* The statement that follows a tlog! invocation is executed.
CallerStmt(p) ==
    /\ pc[p] = "next"
    /\ pc' = [pc EXCEPT ![p] = "body"]
    /\ ran' = [ran EXCEPT ![p] = @ + 1]
    /\ call' = [call EXCEPT ![p] = NoCall]
    /\ UNCHANGED <<env, files, exists, stdout, pid, handles, calls, log, fmtVars>>

\* The caller's function body ends: its locals, the expansions' cfile among
\* them, are dropped.
CallerEnd(p) ==
    /\ pc[p] = "body"
    /\ pc' = [pc EXCEPT ![p] = "out"]
    /\ handles' = [handles EXCEPT ![p] = <<>>]
    /\ UNCHANGED <<env, files, exists, stdout, pid, call, calls, ran, log, fmtVars>>

\* The environment variable is set or removed between two calls.
SetEnv(v) ==
    /\ \A p \in Callers : pc[p] \in {"out", "body"}
    /\ v # env
    /\ env' = v
    /\ UNCHANGED <<files, exists, stdout, pid, pc, handles, call, calls, ran, log, fmtVars>>

(***************************************************************************)
(* tlog!: the one-argument arm, step by step.                              *)
(***************************************************************************)
\* `let msg = $fmt;` and the resolution of log_file.
TlogResolve(p, m) ==
    /\ pc[p] = "body"
    /\ LET f == ResolveLogFile(env)
       IN  call' = [call EXCEPT ![p] = [NoCall EXCEPT !.msg = m, !.env = env,
                                           !.log_file = f, !.before = files[f],
                                           !.result = "running"]]
    /\ calls' = [calls EXCEPT ![p] = @ + 1]
    /\ pc' = [pc EXCEPT ![p] = "open"]
    /\ UNCHANGED <<env, files, exists, stdout, pid, handles, ran, log, fmtVars>>

\* The formatting arm: `let msg = format!($fmt, $($arg)*); tlog!(&msg);`.
TlogFormat(p, c) == TlogResolve(p, Format(c.fmt, c.args))

\* open() = Ok(x): `cfile = x`.
OpenOk(p) ==
    /\ pc[p] = "open"
    /\ LET f == call[p].log_file
       IN  /\ files' = [files EXCEPT ![f] = OpenAppendCreate(@)]
           /\ exists' = exists \cup {f}
           /\ handles' = [handles EXCEPT ![p] = Append(@, [path |-> f, pos |-> 0])]
    /\ pc' = [pc EXCEPT ![p] = "stamp"]
    /\ UNCHANGED <<env, stdout, pid, call, calls, ran, log, fmtVars>>

\* open() = Err(e): the diagnostic, then `return`, which leaves the calling
\* function.
OpenErr(p, e) ==
    /\ pc[p] = "open"
    /\ stdout' = Append(stdout, <<"_tlog: open error: ", call[p].log_file, ": ", e>>)
    /\ call' = [call EXCEPT ![p].result = "open error"]
    /\ handles' = [handles EXCEPT ![p] = <<>>]
    /\ pc' = [pc EXCEPT ![p] = "out"]
    /\ UNCHANGED <<env, files, exists, pid, calls, ran, log, fmtVars>>

\* getpid(), DateTime::now() and the two format! of the line.
Stamp(p, now) ==
    /\ pc[p] = "stamp"
    /\ LET l == LogLine(now, pid[p], call[p].msg)
       IN  call' = [call EXCEPT ![p].now = now, ![p].line = l, ![p].buf = l]
    /\ pc' = [pc EXCEPT ![p] = "write"]
    /\ UNCHANGED <<env, files, exists, stdout, pid, handles, calls, ran, log, fmtVars>>

\* write_all: one write() = Ok(n) of its loop, 0 < n <= len.  When nothing is
\* left write_all returns Ok(()) and the expansion ends.
WriteSome(p, n) ==
    /\ pc[p] = "write"
    /\ n \in 1..Len(call[p].buf)
    /\ LET c == call[p]
           f == c.log_file
           h == handles[p][Len(handles[p])]
           rest == Rest(c.buf, n)
           off == IF c.nwrites = 0 THEN Len(files[f]) ELSE c.off
       IN  /\ files' = [files EXCEPT ![f] = AppendWrite(@, h.pos, Accepted(c.buf, n))]
           /\ handles' = [handles EXCEPT ![p][Len(handles[p])].pos = Len(files'[f])]
           /\ call' = [call EXCEPT ![p].buf = rest, ![p].off = off,
                                   ![p].nwrites = @ + 1,
                                   ![p].result = IF rest = <<>> THEN "ok" ELSE @]
           /\ pc' = [pc EXCEPT ![p] = IF rest = <<>> THEN "next" ELSE "write"]
           /\ log' = IF rest = <<>>
                     THEN Append(log, [caller |-> p, no |-> calls[p], path |-> f, off |-> off,
                                       line |-> c.line, msg |-> c.msg,
                                       nwrites |-> c.nwrites + 1])
                     ELSE log
    /\ UNCHANGED <<env, exists, stdout, pid, calls, ran, fmtVars>>

\* write_all = Err(e) (a write() failed, or accepted nothing; an interrupted
\* write() is retried and changes nothing): the diagnostic, then `return`,
\* which leaves the calling function.
WriteErr(p, e) ==
    /\ pc[p] = "write"
    /\ stdout' = Append(stdout, <<"_tlog: write_all failed: ", e>>)
    /\ call' = [call EXCEPT ![p].result = "write error"]
    /\ handles' = [handles EXCEPT ![p] = <<>>]
    /\ pc' = [pc EXCEPT ![p] = "out"]
    /\ UNCHANGED <<env, files, exists, pid, calls, ran, log, fmtVars>>

(***************************************************************************)
(* The formatter on its own.                                               *)
(***************************************************************************)
tlogVars == <<env, files, exists, stdout, pid, pc, handles, call, calls, ran, log>>

\* DateTime::now(): a fresh value, once the previous one has been printed.
Now(d) ==
    /\ shown # <<>>
    /\ dt' = d
    /\ shown' = <<>>
    /\ UNCHANGED tlogVars

\* format!("{}", dt).
Show ==
    /\ shown = <<>>
    /\ shown' = Display(dt)
    /\ UNCHANGED <<dt, tlogVars>>

(***************************************************************************)
(* Specifications.                                                         *)
(***************************************************************************)
\* What DateTime::now() returns to the tlog! runs: the local time, or UTC
\* when the local offset is unknown.
LogNow == {DateTimeNow([ok |-> TRUE, odt |-> AtOffset(DocExample, 3600)], AtOffset(DocExample, 0)),
           DateTimeNow(IndeterminateOffset, AtOffset(DocExample, 0))}

\* What write() accepts of a buffer: all of it, or all but its last byte.
WriteSizes(p) == {Len(call[p].buf) - 1, Len(call[p].buf)} \ {0}

\* One caller: sequential calls under any one value of the environment
\* variable.
Init == InitWith({1 :> 15235 @@ 2 :> 15235})

Next ==
    \/ CallerEnter(1)
    \/ CallerStmt(1)
    \/ CallerEnd(1)
    \/ \E m \in Msgs : calls[1] < MaxCalls /\ TlogResolve(1, m)
    \/ \E c \in FmtCalls : calls[1] < MaxCalls /\ TlogFormat(1, c)
    \/ OpenOk(1)
    \/ \E e \in OpenErrors : OpenErr(1, e)
    \/ \E now \in LogNow : Stamp(1, now)
    \/ \E n \in WriteSizes(1) : WriteSome(1, n)
    \/ \E e \in WriteErrors : WriteErr(1, e)

Spec == Init /\ [][Next]_vars

\* One caller: sequential calls, the environment variable changing between
\* them.
NextEnv ==
    \/ Next
    \/ \E v \in EnvValues : SetEnv(v)

SpecEnv == Init /\ [][NextEnv]_vars

\* Two callers, threads of one process or two processes, on one path.
ConcMsgs == {<<"a">>}

ConcNow == {DateTimeNow(IndeterminateOffset, AtOffset(DocExample, 0))}

InitConc ==
    /\ InitWith({1 :> 15235 @@ 2 :> 15235, 1 :> 15235 @@ 2 :> 7})
    /\ env = Unset

NextConc ==
    \E p \in Callers :
        \/ CallerEnter(p)
        \/ CallerStmt(p)
        \/ CallerEnd(p)
        \/ \E m \in ConcMsgs : calls[p] < ConcCalls /\ TlogResolve(p, m)
        \/ OpenOk(p)
        \/ \E e \in OpenErrors : OpenErr(p, e)
        \/ \E now \in ConcNow : Stamp(p, now)
        \/ \E n \in WriteSizes(p) : WriteSome(p, n)
        \/ \E e \in WriteErrors : WriteErr(p, e)

SpecConc == InitConc /\ [][NextConc]_vars

\* The formatter over every reading of the clock.
InitFmt ==
    /\ InitWith({1 :> 15235 @@ 2 :> 15235})
    /\ env = Unset

NextFmt ==
    \/ \E d \in DateTimeNowValues(WallClock) : Now(d)
    \/ Show

SpecFmt == InitFmt /\ [][NextFmt]_vars

(***************************************************************************)
(* Reading text back.                                                      *)
(***************************************************************************)
\* The width of "{:04}-{:02}-{:02} {:02}:{:02}:{:02}.{:03}".
TimestampWidth == 23

\* s has the shape YYYY-MM-DD HH:MM:SS.mmm.
IsTimestamp(s) ==
    /\ Len(s) = TimestampWidth
    /\ \A i \in 1..Len(s) :
        IF i \in {5, 8} THEN s[i] = "-"
        ELSE IF i = 11 THEN s[i] = " "
        ELSE IF i \in {14, 17} THEN s[i] = ":"
        ELSE IF i = 20 THEN s[i] = "."
        ELSE IsDigit(s[i])

\* s begins with a `[timestamp][pid] ` block.
HasHeader(s) ==
    /\ Len(s) >= TimestampWidth + 6
    /\ s[1] = "["
    /\ IsTimestamp(SubSeq(s, 2, TimestampWidth + 1))
    /\ s[TimestampWidth + 2] = "]"
    /\ s[TimestampWidth + 3] = "["
    /\ \E k \in (TimestampWidth + 4)..(Len(s) - 2) :
        /\ AllDigits(SubSeq(s, TimestampWidth + 4, k))
        /\ s[k + 1] = "]"
        /\ s[k + 2] = " "

\* The length of the `[timestamp][pid] ` block of a process.
HeaderLen(id) == TimestampWidth + 5 + Len(FmtInt(id))

IsPrefix(a, b) == Len(a) <= Len(b) /\ SubSeq(b, 1, Len(a)) = a

Newlines(s) == Cardinality({i \in 1..Len(s) : s[i] = NL})

\* The bytes of the file where a completed record was written.
RecordInFile(e) ==
    LET c == files[e.path]
        last == IF e.off + Len(e.line) <= Len(c) THEN e.off + Len(e.line) ELSE Len(c)
    IN  SubSeq(c, e.off + 1, last)

InCall(p) == pc[p] \in {"open", "stamp", "write"}

Failed(p) == call[p].result \in {"open error", "write error"}

(***************************************************************************)
(* C8.                                                                     *)
(***************************************************************************)
\* C8: the Display output of every DateTime value is 23 characters of the
\* form YYYY-MM-DD HH:MM:SS.mmm, and the zero-padded groups read back as the
\* year, the 1-indexed month, the day, hour, minute, second and millisecond
\* of the value (so the output is a function of these seven fields).
C8_DisplayFixedWidth ==
    shown # <<>> =>
        /\ IsTimestamp(shown)
        /\ ParseDec(SubSeq(shown, 1, 4)) = dt.odt.year
        /\ ParseDec(SubSeq(shown, 6, 7)) = dt.odt.month
        /\ ParseDec(SubSeq(shown, 9, 10)) = dt.odt.day
        /\ ParseDec(SubSeq(shown, 12, 13)) = dt.odt.hour
        /\ ParseDec(SubSeq(shown, 15, 16)) = dt.odt.minute
        /\ ParseDec(SubSeq(shown, 18, 19)) = dt.odt.second
        /\ ParseDec(SubSeq(shown, 21, 23)) = dt.odt.nanosecond \div 1000000

\* A January date with a one-digit millisecond and a non-UTC offset is printed.
C8_Witness ==
    /\ shown # <<>>
    /\ dt.odt.month = 1
    /\ dt.odt.nanosecond = 7999999
    /\ dt.odt.offset # 0
    /\ SubSeq(shown, 5, 8) = <<"-", "0", "1", "-">>
    /\ SubSeq(shown, 20, 23) = <<".", "0", "0", "7">>

(***************************************************************************)
(* C1, C10: the expansion inside the calling function.                     *)
(***************************************************************************)
\* C1: a tlog call that fails aborts only that call: the statement that
\* follows it in the calling function is still executed, so a caller that has
\* left its function has executed the statement after every call it started.
C1_CallerContinues ==
    \A p \in Callers : pc[p] = "out" => ran[p] = calls[p]

\* C10: a call holds at most one open handle, and between calls (once the
\* statement after a call has run, or the function has been left) no handle
\* opened by tlog remains open.
C10_HandleScoped ==
    \A p \in Callers :
        /\ Len(handles[p]) <= 1
        /\ pc[p] \in {"body", "out"} => handles[p] = <<>>

(***************************************************************************)
(* C3: the target file.                                                    *)
(***************************************************************************)
\* The target the claim gives for a value of TMP_LOG_FILE.
ClaimedTarget(e) == IF ~e.set \/ e.val = "" THEN DefaultLogFile ELSE e.val

\* C3: the file of every call is /tmp/t.log when TMP_LOG_FILE is unset or
\* empty at the time of the call and the variable's value otherwise; the
\* handle the call writes through is a handle on that file.
C3_TargetFromEnv ==
    \A p \in Callers :
        call[p].result # "none" =>
            /\ call[p].log_file = ClaimedTarget(call[p].env)
            /\ pc[p] \in {"stamp", "write"} =>
                   handles[p][Len(handles[p])].path = ClaimedTarget(call[p].env)

(***************************************************************************)
(* C2, C6: newlines and the header of the records.                         *)
(***************************************************************************)
\* The positions of a content at which a line begins.
LineStarts(c) == {i \in 1..Len(c) : i = 1 \/ c[i - 1] = NL}

\* C2 as stated: once no call is running, every line of every file begins
\* with a `[timestamp][pid] ` block and every record written ends with
\* exactly one newline.
C2_EveryLineHasHeader ==
    (\A p \in Callers : ~InCall(p)) =>
        /\ \A f \in Paths : \A i \in LineStarts(files[f]) :
               HasHeader(SubSeq(files[f], i, Len(files[f])))
        /\ \A k \in 1..Len(log) :
               LET r == RecordInFile(log[k])
               IN  EndsWith(r, NL) /\ ~EndsWith(SubSeq(r, 1, Len(r) - 1), NL)

\* A message with no newline other than at most one final newline.
SingleLine(m) == Newlines(m) = 0 \/ (Newlines(m) = 1 /\ EndsWith(m, NL))

\* C2 amended: every record written by a successful call begins with a
\* `[timestamp][pid] ` block and ends with a newline; when the message has no
\* newline other than at most one final newline, that final newline is the
\* only newline of the record.
C2_RecordHasHeader ==
    \A k \in 1..Len(log) :
        LET r == RecordInFile(log[k])
        IN  /\ HasHeader(r)
            /\ EndsWith(r, NL)
            /\ SingleLine(log[k].msg) => Newlines(r) = 1

\* Two records are in a file, of a one-line and of a several-line message.
C2_Witness ==
    /\ Len(log) >= 2
    /\ \E k \in 1..Len(log) : log[k].msg = <<"a">>
    /\ \E k \in 1..Len(log) : log[k].msg = <<"a", NL, NL>>

\* C6: a message that does not end in a newline is written with exactly one
\* newline appended, a message that ends in a newline with none: the record
\* in the file is the header block, the message, and the newline only in the
\* first case.
C6_NewlineNormalised ==
    \A k \in 1..Len(log) :
        LET r == RecordInFile(log[k])
            m == log[k].msg
            h == HeaderLen(pid[log[k].caller])
        IN  IF EndsWith(m, NL)
            THEN Len(r) = h + Len(m) /\ SubSeq(r, h + 1, Len(r)) = m
            ELSE Len(r) = h + Len(m) + 1 /\ SubSeq(r, h + 1, Len(r)) = m \o <<NL>>

\* The empty message and a message ending in a newline have been written.
C6_Witness ==
    /\ \E k \in 1..Len(log) : log[k].msg = <<>>
    /\ \E k \in 1..Len(log) : log[k].msg = <<"a", NL>>

(***************************************************************************)
(* C4, C5, C7: what a call does to the file.                               *)
(***************************************************************************)
\* `[<timestamp>][<pid>] <formatted message>` of a caller's current call.
ClaimedRecord(p) ==
    <<"[">> \o Display(call[p].now) \o <<"]", "[">> \o FmtInt(pid[p]) \o <<"]", " ">>
        \o call[p].msg

\* C4 as stated: after a successful call the file is its previous content,
\* then `[<timestamp>][<pid>] <formatted message>`, then a newline.
C4_AppendsRecordAndNewline ==
    \A p \in Callers :
        pc[p] = "next" =>
            files[call[p].log_file] = call[p].before \o ClaimedRecord(p) \o <<NL>>

\* C4 amended: after a successful call the file is its previous content, then
\* `[<timestamp>][<pid>] <formatted message>`, then a newline unless the
\* formatted message already ends in one.
C4_AppendsRecord ==
    \A p \in Callers :
        pc[p] = "next" =>
            files[call[p].log_file] =
                call[p].before \o ClaimedRecord(p)
                    \o (IF EndsWith(call[p].msg, NL) THEN <<>> ELSE <<NL>>)

\* A call succeeded in two writes on a file that was not empty, with a message
\* ending in a newline.
C4_Witness ==
    /\ pc[1] = "next"
    /\ call[1].before # <<>>
    /\ call[1].nwrites = 2
    /\ EndsWith(call[1].msg, NL)

\* The records of the successful calls lie in their file in call order.
InCallOrder ==
    \A i, j \in 1..Len(log) :
        /\ RecordInFile(log[i]) = log[i].line
        /\ (log[i].path = log[j].path /\ log[i].no < log[j].no) =>
               log[i].off + Len(log[i].line) <= log[j].off

\* C5: every step of sequential calls leaves the previous content of every
\* file a prefix of its new content, whether the call succeeds or fails, and
\* the records of the successful calls appear in call order.
C5_AppendOnlyOrdered ==
    [][/\ \A f \in Paths : IsPrefix(files[f], files'[f])
       /\ InCallOrder']_vars

\* Two calls with different messages have succeeded on one path, the first
\* of them after a failed call had left bytes in the file or not.
C5_Witness ==
    /\ Len(log) = 2
    /\ log[1].path = log[2].path
    /\ log[1].msg # log[2].msg
    /\ log[2].off = log[1].off + Len(log[1].line)

\* C7 as stated: after a failed call the file is exactly what it was before
\* the call.
C7_FailedCallLeavesFile ==
    \A p \in Callers :
        (pc[p] = "out" /\ Failed(p)) => files[call[p].log_file] = call[p].before

\* C7 amended: after a failed open the file is exactly what it was before the
\* call; after a failed write_all it is the previous content followed by the
\* bytes write() accepted before the error, a proper prefix (possibly empty)
\* of the record.
C7_FailedCallAppendsPrefix ==
    \A p \in Callers :
        /\ (pc[p] = "out" /\ call[p].result = "open error") =>
               files[call[p].log_file] = call[p].before
        /\ (pc[p] = "out" /\ call[p].result = "write error") =>
               \E k \in 0..(Len(call[p].line) - 1) :
                   files[call[p].log_file] =
                       call[p].before \o SubSeq(call[p].line, 1, k)

\* write_all failed after a write() had accepted part of the record.
C7_Witness ==
    /\ pc[1] = "out"
    /\ call[1].result = "write error"
    /\ call[1].nwrites = 1
    /\ files[call[1].log_file] # call[1].before

(***************************************************************************)
(* C9: concurrent callers.                                                 *)
(***************************************************************************)
\* Two records of one file share no byte.
Disjoint(a, b) ==
    a.path = b.path =>
        \/ a.off + Len(a.line) <= b.off
        \/ b.off + Len(b.line) <= a.off

\* C9 as stated: with every write() appended atomically, once all calls of
\* the concurrent callers are complete every record written is in the file
\* once, complete and contiguous: it stands where its first byte went, and no
\* two records share a byte.
C9_RecordsContiguous ==
    (\A p \in Callers : ~InCall(p)) =>
        \A i, j \in 1..Len(log) :
            /\ RecordInFile(log[i]) = log[i].line
            /\ i # j => Disjoint(log[i], log[j])

\* C9 amended: the same of every record that write_all handed to the file in
\* a single write().
C9_SingleWriteRecordsContiguous ==
    (\A p \in Callers : ~InCall(p)) =>
        \A i, j \in 1..Len(log) :
            (log[i].nwrites = 1 /\ log[j].nwrites = 1) =>
                /\ RecordInFile(log[i]) = log[i].line
                /\ i # j => Disjoint(log[i], log[j])

\* Caller 1 began its call on the empty file, caller 2 wrote its record
\* meanwhile, and caller 1's record went behind it in a single write.
C9_Witness ==
    /\ pc[1] = "next"
    /\ ~InCall(2)
    /\ Len(log) = 2
    /\ log[1].caller = 2
    /\ log[2].caller = 1
    /\ call[1].before = <<>>
    /\ call[1].off > 0
    /\ log[1].nwrites = 1
    /\ log[2].nwrites = 1

\* The variable was changed between two calls of one function body: the
\* second call wrote to another file than the first, whose file is as the
\* first call left it.
C3_Retargeted ==
    /\ Len(log) = 2
    /\ log[1].path # log[2].path
    /\ files[log[1].path] = log[1].line
    /\ files[log[2].path] = log[2].line
    /\ Len(handles[1]) = 2

====
